---- MODULE Spec2Model ----
(***************************************************************************)
(* A model of app.py: the Text Truncator (truncate_response), the Memory   *)
(* Store (get_user_memory / save_user_memory over the in-process dict or   *)
(* the users table) and the two Flask handlers, webhook and                *)
(* whatsapp_webhook, run by concurrent server threads.                     *)
(*                                                                         *)
(* Python dicts are functions whose DOMAIN is the set of keys present.     *)
(* Python lists are objects on a heap, named by references, so that the    *)
(* shallow dict.copy() of the in-process store shares its last_queries     *)
(* list with the caller exactly as the interpreter does.                   *)
(***************************************************************************)
EXTENDS Integers, Sequences, FiniteSets, TLC

VARIABLES
    scenario,          \* how the environment drives the server (fixed by Init)
    conn,              \* app.py:293-303: TRUE iff a database connection exists
    in_memory_store,   \* app.py:296: _in_memory_store, user_id -> context dict
    users,             \* app.py:310-316: the users table, user_id -> context JSON
    heap,              \* the list objects of the process, by reference
    inv,               \* one record of locals per server thread
    clock,             \* datetime.utcnow(): the next timestamp
    started,           \* requests received so far
    varied,            \* requests received so far that were not plain
    appended,          \* history: the query records appended for each user id
    putCtx,            \* history: the context last passed to save_user_memory
    lossy,             \* history: a database call for this user id has failed
    db_failures,       \* database calls that have failed so far
    text,              \* truncate_response: argument
    limit,             \* truncate_response: argument
    returned,          \* truncate_response: return value
    tpc,               \* truncate_response: "call" or "done"
    page,              \* fetch_*: the parsed page, its top-level blocks
    extractor,         \* fetch_*: which of the four extractors is called
    extracted,         \* fetch_*: return value
    xpc                \* fetch_*: "call" or "done"

vars == <<scenario, conn, in_memory_store, users, heap, inv, clock, started, varied,
          appended, putCtx, lossy, db_failures, text, limit, returned, tpc,
          page, extractor, extracted, xpc>>

serverVars == <<scenario, conn, in_memory_store, users, heap, inv, clock,
                started, varied, appended, putCtx, lossy, db_failures>>

truncVars == <<text, limit, returned, tpc>>

extractVars == <<page, extractor, extracted, xpc>>

(***************************************************************************)
(* Bounds of the model.                                                    *)
(***************************************************************************)
MaxRequests == 2
MaxSeqRequests == 6
MaxDbFailures == 1
MaxVaried == 1
MaxConcRequests == 3
MaxLen == 7
MaxLimit == 5
MaxBlocks == 4

(***************************************************************************)
(* Text Truncator, app.py:99-118.  A text is a sequence of characters.     *)
(***************************************************************************)
Chars == {"a", " ", "."}

Texts == UNION {[1..n -> Chars] : n \in 0..MaxLen}

Ellipsis == <<".", ".", ".">>

\* str.rfind(ch): the highest 0-based index holding ch, or -1.
rfind(s, ch) ==
    LET hits == {i \in 1..Len(s) : s[i] = ch}
    IN  IF hits = {} THEN -1
        ELSE (CHOOSE i \in hits : \A j \in hits : j <= i) - 1

\* text[:n]
Prefix(s, n) == SubSeq(s, 1, IF n < Len(s) THEN n ELSE Len(s))

\* int(limit * 0.3): the product truncated toward zero.
Int30(lim) == (3 * lim) \div 10

truncate_response_ge(txt, lim) ==
    IF txt = <<>> THEN txt
    ELSE IF Len(txt) <= lim THEN txt
    ELSE LET head == Prefix(txt, lim)
             last_dot == rfind(head, ".")
             last_space == rfind(head, " ")
         IN  IF last_dot # -1 THEN Prefix(txt, last_dot + 1)
             ELSE IF last_space # -1 /\ last_space >= Int30(lim)
                  THEN Prefix(head, last_space) \o Ellipsis
             ELSE head

truncate_response(txt, lim) ==
    IF txt = <<>> THEN txt
    ELSE IF Len(txt) <= lim THEN txt
    ELSE LET head == Prefix(txt, lim)
             last_dot == rfind(head, ".")
             last_space == rfind(head, " ")
         IN  IF last_dot # -1 THEN Prefix(txt, last_dot + 1)
             ELSE IF last_space # -1 /\ last_space > Int30(lim)
                  THEN Prefix(head, last_space) \o Ellipsis
             ELSE head

(***************************************************************************)
(* Section extractors, app.py:124-250.  A page is the sequence of sibling  *)
(* blocks the heading is among; a text is a sequence of characters.  A     *)
(* marker emoji is one character here.                                     *)
(***************************************************************************)
Sections == {"overview", "symptoms", "treatment", "prevention"}

Whitespace == {" ", "\n"}

\* str.strip(), as get_text(strip=True) applies it to the text of a block.
RECURSIVE StripText(_)
StripText(s) ==
    IF s = <<>> THEN s
    ELSE IF Head(s) \in Whitespace THEN StripText(Tail(s))
    ELSE IF s[Len(s)] \in Whitespace THEN StripText(SubSeq(s, 1, Len(s) - 1))
    ELSE s

LowerChar(c) ==
    CASE c = "O" -> "o" [] c = "S" -> "s" [] c = "T" -> "t" [] c = "M" -> "m"
      [] c = "P" -> "p" [] c = "F" -> "f" [] c = "L" -> "l" [] c = "U" -> "u"
      [] OTHER -> c

UpperChar(c) ==
    CASE c = "f" -> "F" [] c = "l" -> "L" [] c = "u" -> "U" [] OTHER -> c

\* str.lower()
LowerText(s) == [i \in 1..Len(s) |-> LowerChar(s[i])]

\* str.capitalize(): the first character upper case, the rest lower case.
Capitalize(s) ==
    [i \in 1..Len(s) |-> IF i = 1 THEN UpperChar(s[i]) ELSE LowerChar(s[i])]

\* sub in s
Contains(s, sub) ==
    \E i \in 0..(Len(s) - Len(sub)) : SubSeq(s, i + 1, i + Len(sub)) = sub

\* sep.join(parts)
RECURSIVE Join(_, _)
Join(parts, sep) ==
    IF parts = <<>> THEN <<>>
    ELSE IF Len(parts) = 1 THEN parts[1]
    ELSE parts[1] \o sep \o Join(Tail(parts), sep)

BlankLine == <<"\n", "\n">>

\* f"Intent of {disease_name.capitalize()}:\n\n"
IntentOf(disease_name) ==
    <<"I", "n", "t", "e", "n", "t", " ", "o", "f", " ">> \o Capitalize(disease_name) \o <<":">> \o BlankLine

\* The keywords a heading is searched for, by extractor.
Keywords(sec) ==
    CASE sec = "overview" -> {<<"o", "v", "e", "r", "v", "i", "e", "w">>}
      [] sec = "symptoms" -> {<<"s", "y", "m", "p", "t", "o", "m", "s">>}
      [] sec = "treatment" -> {<<"t", "r", "e", "a", "t", "m", "e", "n", "t">>,
                               <<"m", "a", "n", "a", "g", "e", "m", "e", "n", "t">>}
      [] sec = "prevention" -> {<<"p", "r", "e", "v", "e", "n", "t", "i", "o", "n">>}

\* The emoji each extractor puts before a point; fetch_overview has none.
Marker(sec) ==
    CASE sec = "symptoms" -> "<diamond>"
      [] sec = "treatment" -> "<pill>"
      [] sec = "prevention" -> "<shield>"

NotFoundSection == [found |-> FALSE, text |-> <<>>]

FoundSection(txt) == [found |-> TRUE, text |-> txt]

IsHeading(block) == block.name \in {"h2", "h3"}

\* soup.find(lambda tag: ...): the index of the first h2/h3 whose lowered
\* text holds a keyword, 0 when there is none.
FindHeading(pg, keywords) ==
    LET hits == {i \in 1..Len(pg) :
                    /\ IsHeading(pg[i])
                    /\ \E k \in keywords :
                          Contains(LowerText(StripText(pg[i].text)), k)}
    IN  IF hits = {} THEN 0 ELSE CHOOSE i \in hits : \A j \in hits : i <= j

\* The loop over heading.find_next_siblings() up to its break: the blocks
\* after the heading and before the next h2/h3.
Siblings(pg, heading) ==
    LET stops == {i \in (heading + 1)..Len(pg) : IsHeading(pg[i])}
        last == IF stops = {} THEN Len(pg)
                ELSE (CHOOSE i \in stops : \A j \in stops : i <= j) - 1
    IN  SubSeq(pg, heading + 1, last)

\* The non-empty stripped texts of a sequence of raw texts.
RECURSIVE NonEmptyTexts(_)
NonEmptyTexts(raws) ==
    IF raws = <<>> THEN <<>>
    ELSE LET txt == StripText(Head(raws))
         IN  (IF txt # <<>> THEN <<txt>> ELSE <<>>)
             \o NonEmptyTexts(Tail(raws))

\* The texts the first loop of fetch_symptoms collects: the li of each ul.
RECURSIVE list_texts(_)
list_texts(span) ==
    IF span = <<>> THEN <<>>
    ELSE (IF Head(span).name = "ul" THEN NonEmptyTexts(Head(span).items)
          ELSE <<>>)
         \o list_texts(Tail(span))

\* The texts the paragraph loop collects: each p.
RECURSIVE paragraph_texts(_)
paragraph_texts(span) ==
    IF span = <<>> THEN <<>>
    ELSE (IF Head(span).name = "p" THEN NonEmptyTexts(<<Head(span).text>>)
          ELSE <<>>)
         \o paragraph_texts(Tail(span))

\* f"{marker} {txt}" for each text
decorate(texts, marker) ==
    [i \in 1..Len(texts) |-> <<marker, " ">> \o texts[i]]

\* app.py:124-148
fetch_overview(pg, disease_name) ==
    LET heading == FindHeading(pg, Keywords("overview"))
    IN  IF heading = 0 THEN NotFoundSection
        ELSE LET paragraphs == paragraph_texts(Siblings(pg, heading))
             IN  IF paragraphs = <<>> THEN NotFoundSection
                 ELSE FoundSection(truncate_response(
                          IntentOf(disease_name)
                              \o StripText(Join(paragraphs, <<" ">>)), 500))

\* The body shared by fetch_symptoms, fetch_treatment and fetch_prevention,
\* which differ in keyword and marker only.
fetch_points_merged(pg, disease_name, sec) ==
    LET heading == FindHeading(pg, Keywords(sec))
    IN  IF heading = 0 THEN NotFoundSection
        ELSE LET span == Siblings(pg, heading)
                 points == decorate(list_texts(span) \o paragraph_texts(span),
                                    Marker(sec))
             IN  IF points = <<>> THEN NotFoundSection
                 ELSE FoundSection(truncate_response(
                          IntentOf(disease_name) \o Join(points, BlankLine),
                          500))

fetch_points(pg, disease_name, sec) ==
    LET heading == FindHeading(pg, Keywords(sec))
    IN  IF heading = 0 THEN NotFoundSection
        ELSE LET span == Siblings(pg, heading)
                 listed == decorate(list_texts(span), Marker(sec))
                 points == IF listed # <<>> THEN listed
                           ELSE decorate(paragraph_texts(span), Marker(sec))
             IN  IF points = <<>> THEN NotFoundSection
                 ELSE FoundSection(truncate_response(
                          IntentOf(disease_name) \o Join(points, BlankLine),
                          500))

\* app.py:150-182
fetch_symptoms(pg, disease_name) == fetch_points(pg, disease_name, "symptoms")

\* app.py:184-216
fetch_treatment(pg, disease_name) == fetch_points(pg, disease_name, "treatment")

\* app.py:218-250
fetch_prevention(pg, disease_name) ==
    fetch_points(pg, disease_name, "prevention")

\* The blocks a page is made of: the headings of the sections, paragraphs,
\* bulleted and numbered lists, and a block of another kind.
Block(name, txt, items) == [name |-> name, text |-> txt, items |-> items]

Blocks ==
    {Block("h2", <<"O", "v", "e", "r", "v", "i", "e", "w">>, <<>>),
     Block("h3", <<"S", "y", "m", "p", "t", "o", "m", "s">>, <<>>),
     Block("h2", <<"T", "r", "e", "a", "t", "m", "e", "n", "t">>, <<>>),
     Block("h3", <<"M", "a", "n", "a", "g", "e", "m", "e", "n", "t">>, <<>>),
     Block("h2", <<"P", "r", "e", "v", "e", "n", "t", "i", "o", "n">>, <<>>),
     Block("p", <<" ">>, <<>>),
     Block("p", <<" ", "a">>, <<>>),
     Block("ul", <<>>, << <<" ">> >>),
     Block("ul", <<>>, << <<"b", " ">>, <<" ">>, <<"c">> >>),
     Block("ol", <<>>, << <<"b">> >>),
     Block("div", <<"a">>, <<>>)}

Pages == UNION {[1..n -> Blocks] : n \in 0..MaxBlocks}

\* The disease name the extractors are called with.
DiseaseName == <<"f", "L", "u">>

(***************************************************************************)
(* Values of the server model.                                             *)
(***************************************************************************)
\* app.py:23-25
INDIAN_LANGUAGES ==
    {"hi", "te", "ta", "kn", "bn", "mr", "gu", "ml", "ur", "pa", "or", "ks"}

\* The server threads that run handlers (Flask serves requests concurrently).
Handlers == {"h1", "h2"}

\* The non-empty user ids seen; "default_user" is app.py:571's fallback id.
UserIds == {"u1", "default_user"}

\* A missing id (None): falsy in "if not user_id".
NoUserId == ""

\* A request parameter that is not a string (a JSON list, a protobuf list
\* value): truthy, and without the str methods strip() and lower().
ListValue == "<list>"

\* Python dicts.
EmptyDict == [k \in {} |-> ""]

dict_get(d, k, default) == IF k \in DOMAIN d THEN d[k] ELSE default

setdefault(d, k, v) == IF k \in DOMAIN d THEN d ELSE d @@ (k :> v)

dict_set(d, k, v) == (k :> v) @@ d

ContextKeys == {"last_disease", "user_lang", "last_queries"}

(***************************************************************************)
(* The heap of list objects.  A context dict held by a handler or by       *)
(* _in_memory_store keeps a reference under "last_queries"; the users      *)
(* table keeps the serialised list itself.                                 *)
(***************************************************************************)
Refs == 1..(Cardinality(UserIds) + Cardinality(Handlers) + 1)

HasList(d) == "last_queries" \in DOMAIN d

StoreRefs(store) ==
    {store[u]["last_queries"] : u \in {v \in DOMAIN store : HasList(store[v])}}

LocalRefs(iv) ==
    {iv[h].memory["last_queries"] : h \in {g \in Handlers : HasList(iv[g].memory)}}

Live(store, iv) == StoreRefs(store) \cup LocalRefs(iv)

\* A reference no dict of the current state holds.
NewRef ==
    LET free == Refs \ Live(in_memory_store, inv)
    IN  CHOOSE r \in free : \A q \in free : r <= q

\* Unreferenced lists are garbage.
Collect(hp, store, iv) ==
    [r \in Refs |-> IF r \in Live(store, iv) THEN hp[r] ELSE <<>>]

\* A context as a value: its list in place of the reference (what
\* json.dumps writes, and what == compares).
CtxValue(ctx, hp) ==
    IF HasList(ctx) THEN dict_set(ctx, "last_queries", hp[ctx["last_queries"]])
    ELSE ctx

LastFive_first(s) == IF Len(s) <= 5 THEN s ELSE SubSeq(s, 1, 5)

\* memory["last_queries"][-5:]
LastFive(s) == IF Len(s) <= 5 THEN s ELSE SubSeq(s, Len(s) - 4, Len(s))

(***************************************************************************)
(* Memory Store, app.py:324-356.  db_ok is the outcome of the database     *)
(* call: FALSE when the try block raises.                                  *)
(***************************************************************************)
\* json.dumps (psycopg2's Json adapter) raises on a value that is not JSON.
Serializable(ctx) ==
    /\ ctx["last_disease"] # ListValue
    /\ \A i \in 1..Len(ctx["last_queries"]) :
          ctx["last_queries"][i].disease # ListValue

\* Returns the context and the heap (a row read from the table is a fresh
\* object; the in-process copy is shallow and shares the stored list).
get_user_memory(user_id, db_ok) ==
    IF user_id = NoUserId THEN [ret |-> EmptyDict, heap |-> heap]
    ELSE IF ~conn THEN
        [ret |-> dict_get(in_memory_store, user_id, EmptyDict), heap |-> heap]
    ELSE IF db_ok /\ user_id \in DOMAIN users THEN
        [ret |-> dict_set(users[user_id], "last_queries", NewRef),
         heap |-> [heap EXCEPT ![NewRef] = users[user_id]["last_queries"]]]
    ELSE [ret |-> EmptyDict, heap |-> heap]

save_user_memory_noop(user_id, context, db_ok) ==
    [in_memory_store |-> in_memory_store, users |-> users]

\* Returns the two stores after the call.
save_user_memory(user_id, context, db_ok) ==
    IF user_id = NoUserId THEN
        [in_memory_store |-> in_memory_store, users |-> users]
    ELSE IF ~conn THEN
        [in_memory_store |-> dict_set(in_memory_store, user_id, context),
         users |-> users]
    ELSE IF db_ok /\ Serializable(CtxValue(context, heap)) THEN
        [in_memory_store |-> in_memory_store,
         users |-> dict_set(users, user_id, CtxValue(context, heap))]
    ELSE [in_memory_store |-> in_memory_store, users |-> users]

(***************************************************************************)
(* Strings.  The texts the handlers handle are atoms; the conversions on   *)
(* them are tables.                                                        *)
(***************************************************************************)
\* str.strip()
Strip(s) == CASE s = "  " -> ""
              [] s = " Malaria " -> "Malaria"
              [] OTHER -> s

\* str.lower()
Lower(s) == CASE s = "Malaria" -> "malaria"
              [] OTHER -> s

\* What the translation service answers for q (langpair xx|en).
TranslatedText(q) == CASE q = "maleriya" -> "malaria"
                       [] OTHER -> q

\* A reply text: the language it is in and the pieces it is built of.
English(parts) == [lang |-> "en", parts |-> parts]

NoText == English(<<>>)

DontUnderstand == "Sorry, I don't understand your request."

WebhookApology == "An error occurred while processing your request."

WhatsappApology == "Something went wrong. Please try again later."

DialogflowDown == "Something went wrong while connecting to Dialogflow."

KnownIntents ==
    {"get_disease_overview", "get_symptoms", "get_treatment", "get_prevention",
     "disease_outbreak.general", "get_vaccine", "get_last_queries",
     "Default Fallback Intent"}

(***************************************************************************)
(* Translation helpers, app.py:49-96.  svc is the service's answer:        *)
(* "ok", "empty" (no translatedText) or "error" (the request raises).      *)
(***************************************************************************)
ServiceOutcomes == {"ok", "empty", "error"}

\* The service is called for a non-empty text in a whitelisted language.
ServiceOutcomesFor(lang) ==
    IF lang \in INDIAN_LANGUAGES THEN ServiceOutcomes ELSE {"ok"}

translate_to_english(disease_param, detected_lang, svc) ==
    IF disease_param = "" \/ detected_lang = "en" THEN disease_param
    ELSE IF detected_lang \notin INDIAN_LANGUAGES THEN disease_param
    ELSE IF svc = "ok" THEN TranslatedText(disease_param)
    ELSE disease_param

translate_from_english(txt, target_lang, svc) ==
    IF txt.parts = <<>> \/ target_lang = "en" THEN txt
    ELSE IF target_lang \notin INDIAN_LANGUAGES THEN txt
    ELSE IF svc = "ok" THEN [lang |-> target_lang, parts |-> txt.parts]
    ELSE txt

(***************************************************************************)
(* The environment: the requests sent and the answers of the remote        *)
(* collaborators.  A plain request names user "u1" (or nobody) and no      *)
(* disease, and is answered by every collaborator without surprise.  Three *)
(* scenarios bound the environment: "varied" sends a few requests, one at  *)
(* a time, some of them of any shape; "sequential" sends many plain        *)
(* requests, one at a time; "concurrent" sends a few plain requests to two *)
(* threads at once.                                                        *)
(***************************************************************************)
Varied == scenario = "varied"

RequestLimit ==
    CASE scenario = "sequential" -> MaxSeqRequests
      [] scenario = "concurrent" -> MaxConcRequests
      [] OTHER -> MaxRequests

Workers == IF scenario = "concurrent" THEN Handlers ELSE {"h1"}

\* A dict body of POST /webhook, read as app.py:365-368 reads it.
DictBody(user_id, intent_name, disease, any, date) ==
    [body |-> "dict", user_id |-> user_id, intent_name |-> intent_name,
     disease |-> disease, any |-> any, date |-> date]

\* A body request.get_json(silent=True) gives None for ("none": missing or
\* not JSON), a falsy JSON value ("empty": {}), and a truthy JSON value that
\* is no dict ("nondict": [1]).
OtherBody(kind) == [DictBody(NoUserId, "", "", "", "") EXCEPT !.body = kind]

\* "book_appointment" stands for the intents neither handler knows.
IntentNames == {"get_symptoms", "get_vaccine", "book_appointment"}

DateStrings == {"", "2024-01-01T12:00:00+05:30", "9999-12-31", "tomorrow"}

PlainWebhookRequests ==
    {OtherBody("none"), DictBody("u1", "get_symptoms", "", "", ""),
     DictBody(NoUserId, "get_symptoms", "", "", "")}

AllWebhookRequests ==
    {OtherBody(k) : k \in {"none", "empty", "nondict"}}
    \cup {r \in {DictBody(u, i, d, a, t) :
                    u \in {NoUserId, "u1"}, i \in IntentNames,
                    d \in {"", "  ", "Malaria", "maleriya", ListValue},
                    a \in {"", "maleriya"}, t \in DateStrings} :
            r.intent_name = "get_vaccine" \/ r.date = ""}

\* Requests of any shape while the scenario allows one more of them.
AnyShape == Varied /\ varied < MaxVaried

WebhookRequests ==
    IF AnyShape THEN AllWebhookRequests ELSE PlainWebhookRequests

\* What the Dialogflow call gives: it raises, or answers with a fulfillment
\* text (possibly empty), an intent and a disease parameter (possibly none,
\* possibly a list value).
PlainDfAnswer ==
    [raises |-> FALSE, text |-> "", intent |-> "get_symptoms", disease |-> ""]

DfAnswers ==
    {PlainDfAnswer,
     [raises |-> TRUE, text |-> "", intent |-> "", disease |-> ""]}
    \cup [raises : {FALSE}, text : {"Here is what I found."},
          intent : {"get_symptoms", "book_appointment"},
          disease : {"", "malaria", ListValue}]

\* A POST /whatsapp_webhook form, with the answer Dialogflow will give to it.
PlainWhatsappForms == {[Body |-> "", From |-> "u1", answer |-> PlainDfAnswer]}

AllWhatsappForms ==
    [Body : {"", "maleriya ke lakshan"},
     From : {NoUserId, "u1"}, answer : DfAnswers]

WhatsappForms ==
    IF AnyShape THEN AllWhatsappForms ELSE PlainWhatsappForms

\* langdetect.detect(msg): a language code, or "raise"
\* (LangDetectException).  It is not called on an empty text.
DetectOutcomes(msg) ==
    IF msg = "" THEN {"raise"} ELSE {"en", "hi", "fr", "raise"}

\* The outcome of a database call: TRUE unless the try block raises.
DbOutcomes(user_id) ==
    IF conn /\ user_id # NoUserId /\ db_failures < MaxDbFailures
    THEN BOOLEAN ELSE {TRUE}

\* load_slugs / fetch_* / get_who_outbreak_data: found or not.  Only the
\* collaborators the intent calls answer.
Envs(intent_name, disease_param) ==
    IF intent_name \in {"get_disease_overview", "get_symptoms",
                        "get_treatment", "get_prevention"}
       /\ disease_param \notin {"", ListValue}
    THEN {[slug |-> TRUE, section |-> TRUE, outbreaks |-> FALSE],
          [slug |-> TRUE, section |-> FALSE, outbreaks |-> FALSE],
          [slug |-> FALSE, section |-> FALSE, outbreaks |-> FALSE]}
    ELSE IF intent_name = "disease_outbreak.general"
    THEN {[slug |-> FALSE, section |-> FALSE, outbreaks |-> TRUE],
          [slug |-> FALSE, section |-> FALSE, outbreaks |-> FALSE]}
    ELSE {[slug |-> FALSE, section |-> FALSE, outbreaks |-> FALSE]}

(***************************************************************************)
(* Handler locals.                                                         *)
(***************************************************************************)
NoReply == [status |-> 0, body |-> NoText]

Idle ==
    [pc |-> "idle", route |-> "", body |-> "", user_id |-> NoUserId,
     intent_name |-> "", date_str |-> "", disease_input |-> "",
     incoming_msg |-> "", memory |-> EmptyDict, detected_lang |-> "",
     disease_param |-> "", user_lang |-> "", fulfillment_text |-> "",
     response_text |-> NoText, reply |-> NoReply, fault |-> FALSE,
     df_answer |-> <<>>, got |-> <<>>, put_seen |-> <<>>,
     stamp |-> 0, raced |-> {}]

\* Flask's answer to an exception no handler code catches.
Unhandled == [status |-> 500, body |-> English(<<"Internal Server Error">>)]

InvalidRequest_200 == [status |-> 200, body |-> English(<<"Invalid request">>)]

\* app.py:363
InvalidRequest == [status |-> 400, body |-> English(<<"Invalid request">>)]

\* jsonify({"fulfillmentText": ...}) / str(twilio_resp)
Ok(txt) == [status |-> 200, body |-> txt]

normalize_lang_raw(detected_lang) == detected_lang

\* app.py:386 and app.py:584
normalize_lang(detected_lang) ==
    IF detected_lang \in INDIAN_LANGUAGES THEN detected_lang ELSE "en"

WithDefaults_fresh(m) ==
    ("last_disease" :> "" @@ "user_lang" :> "en" @@ "last_queries" :> NewRef)

\* The three setdefault calls, app.py:372-374 and app.py:575-577.  A list
\* created by setdefault is a new object.
WithDefaults(m) ==
    setdefault(setdefault(setdefault(m, "last_disease", ""), "user_lang", "en"),
               "last_queries", NewRef)

(***************************************************************************)
(* Response builders of webhook, app.py:404-498.  A builder returns the    *)
(* pieces of the English text, or raises.                                  *)
(***************************************************************************)
Built(parts) == [raised |-> FALSE, parts |-> parts]

Raised == [raised |-> TRUE, parts |-> <<>>]

SectionIntents ==
    {"get_disease_overview", "get_symptoms", "get_treatment", "get_prevention"}

SectionName(intent_name) ==
    CASE intent_name = "get_disease_overview" -> "Overview"
      [] intent_name = "get_symptoms" -> "Symptoms"
      [] intent_name = "get_treatment" -> "Treatment"
      [] intent_name = "get_prevention" -> "Prevention"

\* datetime.strptime(date_str.split("T")[0], "%Y-%m-%d"), app.py:466-471:
\* today when date_str is empty or does not parse.
BirthDate(date_str) ==
    CASE date_str = "2024-01-01T12:00:00+05:30" -> "2024-01-01"
      [] date_str = "9999-12-31" -> "9999-12-31"
      [] OTHER -> "today"

\* build_polio_schedule, app.py:281-290: birth_date + timedelta(weeks=260)
\* raises OverflowError past year 9999.
ScheduleOverflows(birth_date) == birth_date = "9999-12-31"

\* The lines of get_last_queries, app.py:494, flattened.
RECURSIVE QueryLines(_)
QueryLines(saved) ==
    IF saved = <<>> THEN <<>>
    ELSE <<ToString(Head(saved).timestamp), Head(saved).intent,
           Head(saved).disease>> \o QueryLines(Tail(saved))

\* app.py:407-457: one of the four section intents.
section_response(intent_name, disease_param, env) ==
    LET header == <<SectionName(intent_name), "OF", disease_param>>
    IN  IF disease_param = "" THEN Built(header \o <<"No disease provided.">>)
        \* get_slug, app.py:41: (disease_param or "").strip() on a non-string
        ELSE IF disease_param = ListValue THEN Raised
        ELSE IF env.slug THEN
            Built(header \o
                  (IF env.section THEN <<"Intent of", disease_param, "section">>
                   ELSE <<SectionName(intent_name), "not found for",
                          disease_param>>))
        ELSE Built(header \o
                   <<IF intent_name = "get_disease_overview"
                     THEN "Disease not found:" ELSE "No URL found for",
                     disease_param>>)

default_response_blank == Built(<<" ">>)

\* app.py:404: the text no branch of the dispatch replaces.
default_response == Built(<<DontUnderstand>>)

webhook_response(intent_name, disease_param, date_str, saved, env) ==
    CASE intent_name \in SectionIntents ->
            section_response(intent_name, disease_param, env)
      [] intent_name = "disease_outbreak.general" ->
            Built(<<"LATEST OUTBREAK NEWS",
                    IF env.outbreaks THEN "outbreaks"
                    ELSE "Unable to fetch outbreak data.">>)
      [] intent_name = "get_vaccine" ->
            IF ScheduleOverflows(BirthDate(date_str)) THEN Raised
            ELSE Built(<<"POLIO VACCINATION SCHEDULE", BirthDate(date_str),
                         "ADDITIONAL INFORMATION">>)
      [] intent_name = "get_last_queries" ->
            IF saved = <<>> THEN Built(<<"No past queries stored.">>)
            ELSE Built(<<"Your last queries:">> \o QueryLines(saved))
      [] intent_name = "Default Fallback Intent" -> Built(<<" ">>)
      [] OTHER -> default_response

(***************************************************************************)
(* The steps the two handlers share.                                       *)
(***************************************************************************)
\* get_user_memory(...) or {}, then the setdefault calls.  got and put_seen
\* record the call for the round-trip property.
ReadMemory(h, db_ok) ==
    LET r == get_user_memory(inv[h].user_id, db_ok)
    IN  [memory |-> WithDefaults(r.ret),
         heap |-> IF HasList(r.ret) THEN r.heap
                  ELSE [r.heap EXCEPT ![NewRef] = <<>>],
         got |-> <<[ret |-> CtxValue(r.ret, r.heap), ok |-> db_ok]>>,
         put_seen |-> putCtx[inv[h].user_id],
         lossy |-> IF db_ok THEN lossy
                   ELSE [lossy EXCEPT ![inv[h].user_id] = TRUE],
         db_failures |-> IF db_ok THEN db_failures ELSE db_failures + 1]

\* list.append: the list object is changed in place, so every dict that
\* holds it sees the new record.
AppendRecord(h, m, rec, next_pc) ==
    LET uid == inv[h].user_id
        ref == m["last_queries"]
    IN  /\ heap' = [heap EXCEPT ![ref] = Append(@, rec)]
        /\ clock' = clock + 1
        /\ appended' = IF uid = NoUserId THEN appended
                       ELSE [appended EXCEPT ![uid] = Append(@, rec)]
        \* a stored context whose list this is has changed without a save
        /\ putCtx' = [u \in DOMAIN putCtx |->
                        IF u \in DOMAIN in_memory_store
                           /\ in_memory_store[u]["last_queries"] = ref
                        THEN <<>> ELSE putCtx[u]]
        /\ inv' = [inv EXCEPT ![h].pc = next_pc, ![h].memory = m,
                              ![h].stamp = rec.timestamp]
        /\ UNCHANGED <<scenario, conn, in_memory_store, users, started, varied,
                       lossy, db_failures, truncVars,
                   extractVars>>

\* memory["last_queries"] = memory["last_queries"][-5:]: the slice is a new
\* list, bound in the handler's dict only.
TrimQueries(h, next_pc) ==
    LET old == inv[h].memory["last_queries"]
        iv == [inv EXCEPT ![h].pc = next_pc,
                          ![h].memory = dict_set(@, "last_queries", NewRef)]
    IN  /\ inv' = iv
        /\ heap' = Collect([heap EXCEPT ![NewRef] = LastFive(heap[old])],
                           in_memory_store, iv)
        /\ UNCHANGED <<scenario, conn, in_memory_store, users, clock, started,
                       varied, appended, putCtx, lossy, db_failures, truncVars,
                   extractVars>>

\* Where a handler is between its get_user_memory and its save_user_memory.
ReadNotWritten ==
    {"append", "trim", "dispatch", "save", "wa_append", "wa_trim", "wa_save"}

\* save_user_memory(id, memory) as a handler step; iv is the thread's state
\* after it.  The handler does not use memory after the call.
WriteMemory(h, db_ok, iv) ==
    LET uid == inv[h].user_id
        saved == save_user_memory(uid, inv[h].memory, db_ok)
        stored == db_ok /\ (conn => Serializable(CtxValue(inv[h].memory, heap)))
    IN  /\ in_memory_store' = saved.in_memory_store
        /\ users' = saved.users
        /\ putCtx' = [putCtx EXCEPT ![uid] =
                        <<[ctx |-> CtxValue(inv[h].memory, heap),
                           ok |-> stored]>>]
        /\ lossy' = IF stored \/ uid = NoUserId THEN lossy
                    ELSE [lossy EXCEPT ![uid] = TRUE]
        /\ db_failures' = IF db_ok THEN db_failures ELSE db_failures + 1
        \* raced: every other invocation that has read this user's memory
        \* and not yet written it notes the record of the one that writes
        /\ inv' = [k \in Handlers |->
                      IF /\ k # h /\ stored /\ uid # NoUserId
                         /\ inv[k].user_id = uid
                         /\ inv[k].pc \in ReadNotWritten
                      THEN [iv[k] EXCEPT !.raced = @ \cup {inv[h].stamp}]
                      ELSE iv[k]]
        /\ heap' = Collect(heap, saved.in_memory_store, iv)
        /\ UNCHANGED <<scenario, conn, clock, started, varied, appended,
                       truncVars,
                   extractVars>>

(***************************************************************************)
(* webhook, app.py:359-508.                                                *)
(***************************************************************************)
\* params.get("disease", "") or params.get("any", "") or "", app.py:369
RawDisease(req) == IF req.disease # "" THEN req.disease ELSE req.any

\* app.py:361-369: the body is parsed and the request fields are read.
\* Nothing here is inside a try block.
WebhookReceive(h) ==
    /\ h \in Workers
    /\ scenario # "concurrent" => \A g \in Handlers : inv[g].pc = "idle"
    /\ inv[h].pc = "idle"
    /\ started < RequestLimit
    /\ started' = started + 1
    /\ \E req \in WebhookRequests :
       /\ varied' = IF req \in PlainWebhookRequests THEN varied
                     ELSE varied + 1
       /\ inv' = [inv EXCEPT ![h] =
          IF req.body \in {"none", "empty"} THEN
              [Idle EXCEPT !.pc = "return", !.route = "webhook",
                           !.body = req.body, !.reply = InvalidRequest]
          \* req.get on a non-dict, .strip() on a non-string
          ELSE IF req.body = "nondict" \/ RawDisease(req) = ListValue THEN
              [Idle EXCEPT !.pc = "return", !.route = "webhook",
                           !.body = req.body, !.fault = TRUE,
                           !.reply = Unhandled]
          ELSE
              [Idle EXCEPT !.pc = "get_memory", !.route = "webhook",
                           !.body = req.body, !.user_id = req.user_id,
                           !.intent_name = req.intent_name,
                           !.date_str = req.date,
                           !.disease_input = Strip(RawDisease(req))]]
    /\ UNCHANGED <<scenario, conn, in_memory_store, users, heap, clock,
                   appended, putCtx, lossy, db_failures, truncVars,
                   extractVars>>

\* app.py:371-392: the memory read, language detection, translation of the
\* parameter, and the update of memory["last_disease"] and
\* memory["user_lang"].
WebhookGetMemory(h) ==
    /\ inv[h].pc = "get_memory"
    /\ \E db_ok \in DbOutcomes(inv[h].user_id),
          det \in DetectOutcomes(inv[h].disease_input) :
       \E svc \in ServiceOutcomesFor(det) :
          LET rd == ReadMemory(h, db_ok)
              m == rd.memory
              disease_input == inv[h].disease_input
              detected_lang ==
                  IF disease_input # "" /\ det # "raise" THEN det
                  ELSE dict_get(m, "user_lang", "en")
              translated ==
                  translate_to_english(disease_input, detected_lang, svc)
              disease_param ==
                  IF disease_input # ""
                  THEN Lower(Strip(IF translated # "" THEN translated
                                   ELSE disease_input))
                  ELSE dict_get(m, "last_disease", "")
              user_lang ==
                  IF disease_input # "" THEN normalize_lang(detected_lang)
                  ELSE dict_get(m, "user_lang", "en")
          IN  /\ inv' = [inv EXCEPT
                    ![h].pc = "append",
                    ![h].got = rd.got, ![h].put_seen = rd.put_seen,
                    ![h].detected_lang = detected_lang,
                    ![h].disease_param = disease_param,
                    ![h].user_lang = user_lang,
                    ![h].memory = dict_set(dict_set(m, "last_disease",
                                                    disease_param),
                                           "user_lang", user_lang)]
              /\ heap' = rd.heap
              /\ lossy' = rd.lossy
              /\ db_failures' = rd.db_failures
    /\ UNCHANGED <<scenario, conn, in_memory_store, users, clock, started,
                   varied, appended, putCtx, truncVars,
                   extractVars>>

\* app.py:394-401
WebhookAppend(h) ==
    /\ inv[h].pc = "append"
    /\ AppendRecord(h, inv[h].memory,
                    [intent |-> inv[h].intent_name,
                     disease |-> inv[h].disease_param,
                     user_lang |-> inv[h].user_lang,
                     timestamp |-> clock],
                    "trim")

\* app.py:402
WebhookTrim(h) ==
    /\ inv[h].pc = "trim"
    /\ TrimQueries(h, "dispatch")

\* app.py:404-505: the response is built and translated; when a builder
\* raises, the except block sets the apology instead.
WebhookDispatch_unbuilt(h) ==
    /\ inv[h].pc = "dispatch"
    /\ inv' = [inv EXCEPT ![h].pc = "save", ![h].date_str = ""]
    /\ UNCHANGED <<scenario, conn, in_memory_store, users, heap, clock, started,
                   varied, appended, putCtx, lossy, db_failures, truncVars,
                   extractVars>>

WebhookDispatch(h) ==
    /\ inv[h].pc = "dispatch"
    /\ \E env \in Envs(inv[h].intent_name, inv[h].disease_param),
          svc \in ServiceOutcomesFor(inv[h].user_lang) :
          LET r == webhook_response(inv[h].intent_name, inv[h].disease_param,
                                    inv[h].date_str,
                                    heap[inv[h].memory["last_queries"]], env)
          IN  inv' = [inv EXCEPT
                  ![h].pc = "save",
                  ![h].fault = r.raised,
                  ![h].date_str = "",
                  ![h].response_text =
                      IF r.raised THEN English(<<WebhookApology>>)
                      ELSE translate_from_english(English(r.parts),
                                                  inv[h].user_lang, svc)]
    /\ UNCHANGED <<scenario, conn, in_memory_store, users, heap, clock, started,
                   varied, appended, putCtx, lossy, db_failures, truncVars,
                   extractVars>>

\* app.py:507-508
WebhookSave(h) ==
    /\ inv[h].pc = "save"
    /\ \E db_ok \in DbOutcomes(inv[h].user_id) :
          WriteMemory(h, db_ok,
                      [inv EXCEPT ![h].pc = "return",
                                  ![h].memory = EmptyDict,
                                  ![h].reply = Ok(inv[h].response_text)])

\* The reply leaves; the thread's locals die and it serves the next request.
HandlerReturn(h) ==
    /\ inv[h].pc = "return"
    /\ LET iv == [inv EXCEPT ![h] = Idle]
       IN  /\ inv' = iv
           /\ heap' = Collect(heap, in_memory_store, iv)
    /\ UNCHANGED <<scenario, conn, in_memory_store, users, clock, started,
                   varied, appended, putCtx, lossy, db_failures, truncVars,
                   extractVars>>

(***************************************************************************)
(* whatsapp_webhook, app.py:565-655.  The whole body is inside one try     *)
(* block.                                                                  *)
(***************************************************************************)
\* app.py:523-558
detect_intent_text(answer) ==
    IF answer.raises
    THEN [fulfillment_text |-> DialogflowDown, intent |-> "", disease |-> ""]
    ELSE [fulfillment_text |-> IF answer.text # "" THEN answer.text ELSE " ",
          intent |-> answer.intent, disease |-> answer.disease]

\* app.py:609-641
whatsapp_response(fulfillment_text, intent_name, disease_param, env) ==
    LET base == <<IF fulfillment_text # "" THEN fulfillment_text ELSE " ">>
        section ==
            IF disease_param # "" /\ env.slug /\ intent_name \in SectionIntents
            THEN IF env.section THEN <<"Intent of", disease_param, "section">>
                 ELSE <<SectionName(intent_name), "not found for",
                        disease_param>>
            ELSE <<>>
        outbreak ==
            IF intent_name = "disease_outbreak.general"
            THEN <<IF env.outbreaks THEN "outbreaks"
                   ELSE "Unable to fetch outbreak data.">>
            ELSE <<>>
        vaccine ==
            IF intent_name = "get_vaccine"
            THEN <<"Polio Vaccination Schedule", "today">>
            ELSE <<>>
    IN  \* disease_param.lower() on a non-string, app.py:613
        IF disease_param = ListValue THEN Raised
        ELSE Built(base \o section \o outbreak \o vaccine)

\* app.py:569-571
WhatsappReceive(h) ==
    /\ h \in Workers
    /\ scenario # "concurrent" => \A g \in Handlers : inv[g].pc = "idle"
    /\ inv[h].pc = "idle"
    /\ started < RequestLimit
    /\ started' = started + 1
    /\ \E form \in WhatsappForms :
       /\ varied' = IF form \in PlainWhatsappForms THEN varied
                     ELSE varied + 1
       /\ inv' = [inv EXCEPT ![h] =
          [Idle EXCEPT !.pc = "wa_get_memory", !.route = "whatsapp",
                       !.body = "form", !.incoming_msg = form.Body,
                       !.df_answer = <<form.answer>>,
                       !.user_id = IF form.From # NoUserId THEN form.From
                                   ELSE "default_user"]]
    /\ UNCHANGED <<scenario, conn, in_memory_store, users, heap, clock,
                   appended, putCtx, lossy, db_failures, truncVars,
                   extractVars>>

\* app.py:574-595: the memory read, language detection and the Dialogflow
\* call.  english_text (app.py:587) is used by that call only.
WhatsappGetMemory(h) ==
    /\ inv[h].pc = "wa_get_memory"
    /\ \E db_ok \in DbOutcomes(inv[h].user_id),
          det \in DetectOutcomes(inv[h].incoming_msg) :
          LET rd == ReadMemory(h, db_ok)
              detected_lang ==
                  IF inv[h].incoming_msg # "" /\ det # "raise" THEN det
                  ELSE dict_get(rd.memory, "user_lang", "en")
              df_result == detect_intent_text(inv[h].df_answer[1])
          IN  /\ inv' = [inv EXCEPT
                    ![h].pc = "wa_append",
                    ![h].got = rd.got, ![h].put_seen = rd.put_seen,
                    ![h].memory = rd.memory,
                    ![h].incoming_msg = "",
                    ![h].df_answer = <<>>,
                    ![h].detected_lang = detected_lang,
                    ![h].user_lang = normalize_lang(detected_lang),
                    ![h].fulfillment_text = df_result.fulfillment_text,
                    ![h].intent_name = df_result.intent,
                    ![h].disease_param =
                        IF df_result.disease # "" THEN df_result.disease
                        ELSE dict_get(rd.memory, "last_disease", "")]
              /\ heap' = rd.heap
              /\ lossy' = rd.lossy
              /\ db_failures' = rd.db_failures
    /\ UNCHANGED <<scenario, conn, in_memory_store, users, clock, started,
                   varied, appended, putCtx, truncVars,
                   extractVars>>

\* app.py:597-604
WhatsappAppend(h) ==
    /\ inv[h].pc = "wa_append"
    /\ AppendRecord(h,
                    dict_set(dict_set(inv[h].memory, "last_disease",
                                      inv[h].disease_param),
                             "user_lang", inv[h].user_lang),
                    [timestamp |-> clock, intent |-> inv[h].intent_name,
                     disease |-> inv[h].disease_param],
                    "wa_trim")

\* app.py:605
WhatsappTrim(h) ==
    /\ inv[h].pc = "wa_trim"
    /\ TrimQueries(h, "wa_save")

\* app.py:606
WhatsappSave(h) ==
    /\ inv[h].pc = "wa_save"
    /\ \E db_ok \in DbOutcomes(inv[h].user_id) :
          WriteMemory(h, db_ok,
                      [inv EXCEPT ![h].pc = "wa_respond",
                                  ![h].memory = EmptyDict])

\* app.py:608-649: the response is built, translated and sent; when a step
\* raises, app.py:651-655 sends the apology instead.
WhatsappRespond(h) ==
    /\ inv[h].pc = "wa_respond"
    /\ \E env \in Envs(inv[h].intent_name, inv[h].disease_param),
          svc \in ServiceOutcomesFor(inv[h].user_lang) :
          LET r == whatsapp_response(inv[h].fulfillment_text,
                                     inv[h].intent_name,
                                     inv[h].disease_param, env)
              txt == IF r.raised THEN English(<<WhatsappApology>>)
                     ELSE translate_from_english(English(r.parts),
                                                 inv[h].user_lang, svc)
          IN  inv' = [inv EXCEPT ![h].pc = "return",
                                 ![h].fault = r.raised,
                                 ![h].response_text = txt,
                                 ![h].reply = Ok(txt)]
    /\ UNCHANGED <<scenario, conn, in_memory_store, users, heap, clock, started,
                   varied, appended, putCtx, lossy, db_failures, truncVars,
                   extractVars>>

(***************************************************************************)
(* Specifications.                                                         *)
(***************************************************************************)
\* The process after start-up (app.py:293-322): one backend, nothing
\* stored, no request in progress.
InitServer ==
    /\ conn \in BOOLEAN
    /\ in_memory_store = EmptyDict
    /\ users = EmptyDict
    /\ heap = [r \in Refs |-> <<>>]
    /\ inv = [h \in Handlers |-> Idle]
    /\ clock = 1
    /\ started = 0
    /\ varied = 0
    /\ appended = [u \in UserIds |-> <<>>]
    /\ putCtx = [u \in UserIds \cup {NoUserId} |-> <<>>]
    /\ lossy = [u \in UserIds |-> FALSE]
    /\ db_failures = 0

TruncateIdle ==
    /\ text = <<>>
    /\ limit = 1
    /\ returned = <<>>
    /\ tpc = "off"

ExtractIdle ==
    /\ page = <<>>
    /\ extractor = "overview"
    /\ extracted = NotFoundSection
    /\ xpc = "off"

Init == scenario = "varied" /\ InitServer /\ TruncateIdle /\ ExtractIdle

InitSeq ==
    scenario = "sequential" /\ InitServer /\ TruncateIdle /\ ExtractIdle

InitConc ==
    scenario = "concurrent" /\ InitServer /\ TruncateIdle /\ ExtractIdle

Next ==
    \E h \in Handlers :
        \/ WebhookReceive(h)
        \/ WebhookGetMemory(h)
        \/ WebhookAppend(h)
        \/ WebhookTrim(h)
        \/ WebhookDispatch(h)
        \/ WebhookSave(h)
        \/ WhatsappReceive(h)
        \/ WhatsappGetMemory(h)
        \/ WhatsappAppend(h)
        \/ WhatsappTrim(h)
        \/ WhatsappSave(h)
        \/ WhatsappRespond(h)
        \/ HandlerReturn(h)

\* Requests of every shape, one at a time.
Spec == Init /\ [][Next]_vars

\* Many plain requests, one at a time.
SpecSeq == InitSeq /\ [][Next]_vars

\* Two threads serving plain requests at once.
SpecConc == InitConc /\ [][Next]_vars

\* truncate_response applied to every text and limit within the bounds.
InitTruncate ==
    /\ scenario = "truncate"
    /\ InitServer
    /\ conn = FALSE
    /\ text \in Texts
    /\ limit \in 1..MaxLimit
    /\ returned = <<>>
    /\ tpc = "call"
    /\ ExtractIdle

TruncateCall ==
    /\ tpc = "call"
    /\ returned' = truncate_response(text, limit)
    /\ tpc' = "done"
    /\ UNCHANGED <<text, limit, serverVars, extractVars>>

NextTruncate == TruncateCall

SpecTruncate == InitTruncate /\ [][NextTruncate]_vars

\* Each extractor applied to every page within the bounds.
InitExtract ==
    /\ scenario = "extract"
    /\ InitServer
    /\ conn = FALSE
    /\ TruncateIdle
    /\ page \in Pages
    /\ extractor \in Sections
    /\ extracted = NotFoundSection
    /\ xpc = "call"

Fetched(sec, result) ==
    /\ xpc = "call"
    /\ extractor = sec
    /\ extracted' = result
    /\ xpc' = "done"
    /\ UNCHANGED <<page, extractor, serverVars, truncVars>>

FetchOverview == Fetched("overview", fetch_overview(page, DiseaseName))

FetchSymptoms == Fetched("symptoms", fetch_symptoms(page, DiseaseName))

FetchTreatment == Fetched("treatment", fetch_treatment(page, DiseaseName))

FetchPrevention == Fetched("prevention", fetch_prevention(page, DiseaseName))

NextExtract ==
    \/ FetchOverview
    \/ FetchSymptoms
    \/ FetchTreatment
    \/ FetchPrevention

SpecExtract == InitExtract /\ [][NextExtract]_vars

(***************************************************************************)
(* Properties of the Text Truncator, checked under SpecTruncate.           *)
(***************************************************************************)
TruncHead == Prefix(text, limit)

\* C4: for every text and every positive limit the result of
\* truncate_response is at most limit characters long.
C4_ResultWithinLimit == tpc = "done" => Len(returned) <= limit

\* C5: for a text longer than limit the result is no longer than the text,
\* and when the first limit characters hold a period the result is the text
\* up to and including the last such period, of length at most limit.
C5_NoLongerThanInput ==
    (tpc = "done" /\ Len(text) > limit) =>
        /\ Len(returned) <= Len(text)
        /\ rfind(TruncHead, ".") # -1 =>
              /\ returned = SubSeq(text, 1, rfind(TruncHead, ".") + 1)
              /\ Len(returned) <= limit

StoredCtx(u) ==
    IF conn THEN dict_get(users, u, EmptyDict)
    ELSE IF u \in DOMAIN in_memory_store
         THEN CtxValue(in_memory_store[u], heap)
         ELSE EmptyDict

StoredQueries(u) == dict_get(StoredCtx(u), "last_queries", <<>>)

Increasing(qs) ==
    \A i \in 1..Len(qs), j \in 1..Len(qs) :
        i < j => qs[i].timestamp < qs[j].timestamp

\* The most recent min(n, 5) of n records, oldest first.
MostRecent(recs) ==
    LET n == Len(recs)
        k == IF n < 5 THEN n ELSE 5
    IN  [i \in 1..k |-> recs[n - k + i]]

AllIdle == \A h \in Handlers : inv[h].pc = "idle"

\* C1: in every reachable state every stored last_queries has at most 5
\* records, oldest first.
C1_StoredAtMostFive ==
    \A u \in UserIds :
        Len(StoredQueries(u)) <= 5 /\ Increasing(StoredQueries(u))

C7_UserLangWhitelisted ==
    /\ \A u \in UserIds :
          dict_get(StoredCtx(u), "user_lang", "en")
              \in {"en"} \cup INDIAN_LANGUAGES
    /\ \A h \in Handlers :
          (/\ inv[h].pc \in {"return", "wa_respond"}
           /\ inv[h].detected_lang # ""
           /\ inv[h].detected_lang \notin INDIAN_LANGUAGES
           /\ inv[h].user_id # NoUserId
           /\ putCtx[inv[h].user_id] # <<>>
           /\ putCtx[inv[h].user_id][1].ok) =>
              StoredCtx(inv[h].user_id)["user_lang"] = "en"

\* French was detected and the table holds "en" for the user.
C7_Witness ==
    \E h \in Handlers :
        /\ conn
        /\ inv[h].pc \in {"return", "wa_respond"}
        /\ inv[h].detected_lang = "fr"
        /\ inv[h].user_id = "u1"
        /\ Len(StoredQueries("u1")) = 1
        /\ StoredCtx("u1")["user_lang"] = "en"

\* C8: an invocation in which a step raised ends with the handler's apology.
C8_FaultsEndInApology ==
    \A h \in Handlers :
        (inv[h].pc = "return" /\ inv[h].fault) =>
            inv[h].reply =
                [status |-> 200,
                 body |-> English(<<IF inv[h].route = "webhook"
                                    THEN WebhookApology
                                    ELSE WhatsappApology>>)]

\* C9: a /webhook invocation whose body is missing or not JSON changes
\* neither store and ends with status 400 and "Invalid request".
C9_InvalidBody ==
    [][\A h \in Handlers :
          (inv[h].body = "none" \/ inv'[h].body = "none") =>
              /\ in_memory_store' = in_memory_store
              /\ users' = users
              /\ inv'[h].pc = "return" =>
                    inv'[h].reply =
                        [status |-> 400,
                         body |-> [lang |-> "en",
                                   parts |-> <<"Invalid request">>]]]_vars

\* The 400 was sent with a context already stored.
C9_Witness ==
    \E h \in Handlers :
        /\ inv[h].body = "none"
        /\ inv[h].pc = "return"
        /\ inv[h].reply.status = 400
        /\ StoredCtx("u1") # EmptyDict

\* C10, as claimed: in both handlers an invocation that resolved an intent
\* name outside the known ones and raised nowhere replies with the default
\* message.
C10_UnknownIntent_AsClaimed ==
    \A h \in Handlers :
        (/\ inv[h].pc = "return" /\ ~inv[h].fault
         /\ inv[h].body \in {"dict", "form"}
         /\ inv[h].intent_name # ""
         /\ inv[h].intent_name \notin KnownIntents) =>
            inv[h].reply.body.parts = <<"Sorry, I don't understand your request.">>

\* C10, amended: webhook does, in the user's language when the translation
\* service answers and in English otherwise; whatsapp_webhook replies with
\* the fulfillment text of Dialogflow instead.
C10_UnknownIntent ==
    \A h \in Handlers :
        (/\ inv[h].pc = "return" /\ ~inv[h].fault
         /\ inv[h].body \in {"dict", "form"}
         /\ inv[h].intent_name \notin KnownIntents) =>
            /\ inv[h].reply.status = 200
            /\ inv[h].reply.body.lang \in {"en", inv[h].user_lang}
            /\ inv[h].reply.body.parts =
                  IF inv[h].route = "webhook"
                  THEN <<"Sorry, I don't understand your request.">>
                  ELSE <<inv[h].fulfillment_text>>

\* webhook answered an unknown intent in Hindi.
C10_Witness ==
    \E h \in Handlers :
        /\ inv[h].pc = "return"
        /\ inv[h].route = "webhook"
        /\ inv[h].intent_name = "book_appointment"
        /\ inv[h].reply.body =
              [lang |-> "hi", parts |-> <<DontUnderstand>>]

\* The step of handler h in which save_user_memory runs.
WriteStep(h) ==
    inv[h].pc \in {"save", "wa_save"} /\ inv'[h].pc # inv[h].pc

\* Handler h holds the translated response text.
ResponseReady(h) == inv[h].response_text.parts # <<>>

\* C11, as claimed: in both handlers the memory write comes after the
\* response has been built and translated.
C11_WriteAfterResponse_AsClaimed ==
    [][\A h \in Handlers : WriteStep(h) => ResponseReady(h)]_vars

\* C11, amended: webhook builds, translates, writes the memory and returns
\* the built text; whatsapp_webhook writes the memory first, then builds,
\* translates and returns.
C11_WriteAfterResponse ==
    [][\A h \in Handlers :
          /\ (WriteStep(h) /\ inv[h].route = "webhook") =>
                /\ ResponseReady(h)
                /\ inv[h].response_text.lang \in {"en", inv[h].user_lang}
                /\ inv'[h].pc = "return"
                /\ inv'[h].reply =
                      [status |-> 200, body |-> inv[h].response_text]
          /\ (WriteStep(h) /\ inv[h].route = "whatsapp") =>
                /\ ~ResponseReady(h)
                /\ inv'[h].pc = "wa_respond"
                /\ ~ResponseReady(h)'
          /\ (inv[h].pc = "wa_respond" /\ inv'[h].pc = "return") =>
                /\ ResponseReady(h)'
                /\ inv'[h].response_text.lang \in {"en", inv[h].user_lang}
                /\ inv'[h].reply =
                      [status |-> 200, body |-> inv'[h].response_text]]_vars

\* webhook has written the memory and is about to return a Hindi text.
C11_Witness ==
    \E h \in Handlers :
        /\ inv[h].pc = "return"
        /\ inv[h].route = "webhook"
        /\ inv[h].response_text.lang = "hi"
        /\ inv[h].reply.body = inv[h].response_text
        /\ putCtx[inv[h].user_id] # <<>>
        /\ putCtx[inv[h].user_id][1].ok
        /\ StoredCtx(inv[h].user_id) = putCtx[inv[h].user_id][1].ctx
        /\ StoredCtx(inv[h].user_id)["user_lang"] = "hi"

\* A /webhook invocation of handler h for a user id, with no disease
\* parameter, whose memory read succeeded, has run save_user_memory.
RemembersDisease(h) ==
    /\ inv[h].pc = "return"
    /\ inv[h].route = "webhook"
    /\ inv[h].got # <<>>
    /\ inv[h].got[1].ok
    /\ inv[h].user_id # NoUserId
    /\ inv[h].disease_input = ""

\* The record such an invocation appends: it carries what was remembered.
RememberedRecord(h) ==
    [intent |-> inv[h].intent_name,
     disease |-> dict_get(inv[h].got[1].ret, "last_disease", ""),
     user_lang |-> dict_get(inv[h].got[1].ret, "user_lang", "en"),
     timestamp |-> clock - 1]

\* The stored last_disease and user_lang are those that were read.
KeepsDiseaseAndLang(h) ==
    LET old == inv[h].got[1].ret
        new == StoredCtx(inv[h].user_id)
    IN  /\ dict_get(new, "last_disease", "") = dict_get(old, "last_disease", "")
        /\ dict_get(new, "user_lang", "en") = dict_get(old, "user_lang", "en")

\* The stored last_queries are those that were read and the new record.
GainsRecord(h) ==
    StoredQueries(inv[h].user_id) =
        MostRecent(dict_get(inv[h].got[1].ret, "last_queries", <<>>)
                   \o <<RememberedRecord(h)>>)

\* C14, as claimed: such an invocation leaves the stored last_disease and
\* user_lang as they were, and the stored last_queries gains one record that
\* carries the remembered disease and language.
C14_OnlyQueriesGrow_AsClaimed ==
    \A h \in Handlers :
        RemembersDisease(h) => (KeepsDiseaseAndLang(h) /\ GainsRecord(h))

\* C14, amended: the record is gained when the write succeeds; when it
\* raises, the stored context is the one that was read.
C14_OnlyQueriesGrow ==
    \A h \in Handlers :
        RemembersDisease(h) =>
            /\ KeepsDiseaseAndLang(h)
            /\ IF putCtx[inv[h].user_id][1].ok
               THEN GainsRecord(h)
               ELSE StoredQueries(inv[h].user_id) =
                       dict_get(inv[h].got[1].ret, "last_queries", <<>>)

\* Malaria in Hindi was remembered and a request without a disease followed.
C14_Witness ==
    \E h \in Handlers :
        /\ RemembersDisease(h)
        /\ putCtx[inv[h].user_id][1].ok
        /\ dict_get(StoredCtx(inv[h].user_id), "last_disease", "") = "malaria"
        /\ dict_get(StoredCtx(inv[h].user_id), "user_lang", "en") = "hi"
        /\ Len(StoredQueries(inv[h].user_id)) = 2
        /\ StoredQueries(inv[h].user_id)[2] = RememberedRecord(h)

\* Handler h writes the memory of a user that another invocation, whose
\* memory read came before this write, has written since h read it: both
\* read before either wrote, and h saves last.
SavesLast(h) ==
    /\ WriteStep(h)
    /\ inv[h].user_id # NoUserId
    /\ inv[h].raced # {}
    /\ putCtx'[inv[h].user_id] # <<>>
    /\ putCtx'[inv[h].user_id][1].ok

\* C12: when two invocations for one user both read the memory before
\* either writes it, what is stored after both writes is the context of the
\* one that saved last, and the record the other appended is not in it.
C12_LastWriterWins ==
    [][\A h \in Handlers :
          SavesLast(h) =>
              /\ StoredCtx(inv[h].user_id)' = CtxValue(inv[h].memory, heap)
              /\ \A i \in 1..Len(StoredQueries(inv[h].user_id)') :
                    StoredQueries(inv[h].user_id)'[i].timestamp
                        \notin inv[h].raced]_vars

(***************************************************************************)
(* Properties of the section extractors, checked under SpecExtract.        *)
(***************************************************************************)
\* The blocks between the first matching heading and the next h2/h3.
TheSpan ==
    LET heading == FindHeading(page, Keywords(extractor))
    IN  IF heading = 0 THEN <<>> ELSE Siblings(page, heading)

\* The result built from texts, each decorated with the section's marker
\* and separated by a blank line, within the 500-character budget.
MarkedResult(texts) ==
    [found |-> TRUE,
     text |-> truncate_response(
                  IntentOf(DiseaseName)
                      \o Join(decorate(texts, Marker(extractor)), BlankLine),
                  500)]

\* List items first, paragraphs when there is no list item, else not found.
ListFirst ==
    LET items == list_texts(TheSpan)
        paragraphs == paragraph_texts(TheSpan)
    IN  IF items # <<>> THEN extracted = MarkedResult(items)
        ELSE IF paragraphs # <<>> THEN extracted = MarkedResult(paragraphs)
        ELSE extracted = [found |-> FALSE, text |-> <<>>]

\* C13, as claimed: each of the four extractors finds a section whenever the
\* span has a non-empty list item or paragraph, and the three that have a
\* marker build it from the list items when there is one.
C13_ListFirst_AsClaimed ==
    xpc = "done" =>
        IF extractor = "overview"
        THEN extracted.found <=>
                (list_texts(TheSpan) # <<>> \/ paragraph_texts(TheSpan) # <<>>)
        ELSE ListFirst

\* C13, amended: fetch_symptoms, fetch_treatment and fetch_prevention do;
\* fetch_overview uses the paragraphs only, joined by a space, unmarked.
C13_ListFirst ==
    xpc = "done" =>
        IF extractor = "overview"
        THEN LET paragraphs == paragraph_texts(TheSpan)
             IN  IF paragraphs # <<>>
                 THEN extracted =
                         [found |-> TRUE,
                          text |-> truncate_response(
                                       IntentOf(DiseaseName)
                                           \o Join(paragraphs, <<" ">>), 500)]
                 ELSE extracted = [found |-> FALSE, text |-> <<>>]
        ELSE ListFirst

\* A symptoms span with a paragraph and two list items gave the two items.
C13_Witness ==
    /\ xpc = "done"
    /\ extractor = "symptoms"
    /\ paragraph_texts(TheSpan) # <<>>
    /\ extracted.found
    /\ extracted.text =
          <<"I", "n", "t", "e", "n", "t", " ", "o", "f", " ", "F", "l", "u", ":", "\n", "\n">>
          \o <<"<diamond>", " ", "b", "\n", "\n", "<diamond>", " ", "c">>

====
